---- MODULE Spec2Model ----
(***************************************************************************)
(* A model of src/src/main.js: the application state (an RGB triple of     *)
(* decimal strings plus the array of saved triples), the four action       *)
(* constructors setR/setG/setB/save, the fold of the action stream into    *)
(* the state stream, and the three components that are rendered from the   *)
(* state and feed user events back as actions.                             *)
(*                                                                         *)
(* An action of the program is a JavaScript function state => state.  It   *)
(* is represented here by a record naming its constructor and argument,    *)
(* and Apply is the call action(state).                                    *)
(***************************************************************************)
EXTENDS Integers, Sequences, FiniteSets, TLC

VARIABLES
    state,      \* the accumulator of the fold: the state last emitted by state$
    published,  \* every state emitted by state$ so far, in order
    received,   \* every action that reached actionProxy$ so far, in order
    view,       \* the DOM as last rendered from the composed vtree
    emitted,    \* the vtrees vtree$ emitted while the last user event was handled
    events,     \* every user event so far, with whether the DOM dispatched it
    heap,       \* the JavaScript objects allocated so far, by address
    refs        \* the address of the state object of each emission of state$

vars == <<state, published, received, view, emitted, events, heap, refs>>

----------------------------------------------------------------------------
(* Bounds of the model.                                                    *)

\* The number of user events of one explored session.
MaxEvents == 4

\* The number of reducer calls explored when the reducer is exercised on
\* its own, and the longest saves array of the state it is started from.
MaxCalls == 2
MaxInitSaves == 1

----------------------------------------------------------------------------
(* Strings.                                                                *)

Digits == <<"0", "1", "2", "3", "4", "5", "6", "7", "8", "9">>

\* The value a range input reports for slider position n: its decimal string.
RECURSIVE DecimalString(_)
DecimalString(n) ==
    IF n < 10 THEN Digits[n + 1]
    ELSE DecimalString(n \div 10) \o Digits[(n % 10) + 1]

\* JSON.stringify of a saved triple, whose keys were inserted in the order
\* r, g, b.
JSONStringify(rgb) ==
    "{\"r\":\"" \o rgb.r \o "\",\"g\":\"" \o rgb.g \o "\",\"b\":\"" \o rgb.b \o "\"}"

Last(seq) == seq[Len(seq)]

----------------------------------------------------------------------------
(* The state and the functions that read and transform it.                 *)

initialState == [rgb |-> [r |-> "0", g |-> "0", b |-> "0"], saves |-> <<>>]

getR(s) == s.rgb.r

getG(s) == s.rgb.g

getB(s) == s.rgb.b

\* canSave as it would be with || in place of &&.
canSave_or(s) == ~(getR(s) = "0" \/ getG(s) = "255" \/ getB(s) = "255")

canSave(s) == ~(getR(s) = "0" /\ getG(s) = "255" /\ getB(s) = "255")

\* setR as it would be with R.over(lensR, R.concat(R.__, value)): the value
\* appended to the field, not put in its place.
setR_concat(value, s) == [s EXCEPT !.rgb = [s.rgb EXCEPT !.r = s.rgb.r \o value]]

\* R.set(lensPath(['rgb', 'r']), value, state): a copy with rgb.r replaced.
setR(value, s) == [s EXCEPT !.rgb = [s.rgb EXCEPT !.r = value]]

\* setG as it would be with lensR pasted in place of lensG.
setG_lensR(value, s) == [s EXCEPT !.rgb = [s.rgb EXCEPT !.r = value]]

setG(value, s) == [s EXCEPT !.rgb = [s.rgb EXCEPT !.g = value]]

setB(value, s) == [s EXCEPT !.rgb = [s.rgb EXCEPT !.b = value]]

\* save as it would be with the new saves set into state, not initialState.
save_intoState(s) ==
    LET newRGB == s.rgb
        saves == s.saves
    IN  [s EXCEPT !.saves = Append(saves, newRGB)]

\* save as it would be with R.prepend in place of R.append.
save_prepend(s) ==
    LET newRGB == s.rgb
        saves == s.saves
    IN  [initialState EXCEPT !.saves = <<newRGB>> \o saves]

\* R.set(lensSaves, R.append(newRGB, saves), initialState)
save(s) ==
    LET newRGB == s.rgb
        saves == s.saves
    IN  [initialState EXCEPT !.saves = Append(saves, newRGB)]

\* action(state), the body of the fold's accumulator function.  An action is
\* the closure a constructor returned: [type |-> constructor, value |-> its
\* argument], or [type |-> "save"].
Apply(action, s) ==
    CASE action.type = "setR" -> setR(action.value, s)
      [] action.type = "setG" -> setG(action.value, s)
      [] action.type = "setB" -> setB(action.value, s)
      [] action.type = "save" -> save(s)

----------------------------------------------------------------------------
(* The same functions on the objects they work on.  A state is an object   *)
(* holding references to its rgb object and its saves array; an address is *)
(* an index into the heap.  R.set, through R.assoc and R.assocPath, and     *)
(* R.append allocate copies and write to none of the objects they are      *)
(* given.                                                                  *)

\* The objects of the constant initialState: the state, its rgb, its saves.
initialStateRef == 1

InitialHeap ==
    <<[kind |-> "state", rgb |-> 2, saves |-> 3],
      [kind |-> "rgb", r |-> "0", g |-> "0", b |-> "0"],
      [kind |-> "array", items |-> <<>>]>>

\* The value of the state object at address a of heap h.
ValueAt(h, a) ==
    LET triple(x) == [r |-> h[x].r, g |-> h[x].g, b |-> h[x].b]
        items == h[h[a].saves].items
    IN  [rgb |-> triple(h[a].rgb),
         saves |-> [i \in 1..Len(items) |-> triple(items[i])]]

\* R.set(lensPath(['rgb', field]), value, state): R.assocPath clones the rgb
\* object with the field replaced, then clones the state with the new rgb.
AssocPathRGB(field, value, h, a) ==
    LET newRGB == [h[h[a].rgb] EXCEPT ![field] = value]
        h1 == Append(h, newRGB)
        newState == [h1[a] EXCEPT !.rgb = Len(h1)]
    IN  [heap |-> Append(h1, newState), ref |-> Len(h1) + 1]

\* save as it would be with saves.push(newRGB) in place of R.append: the
\* array of the state it is given is written to and shared with the result.
SaveObjects_push(h, a) ==
    LET newRGB == h[a].rgb
        saves == h[a].saves
        h1 == [h EXCEPT ![saves].items = Append(@, newRGB)]
        newState == [h1[initialStateRef] EXCEPT !.saves = saves]
    IN  [heap |-> Append(h1, newState), ref |-> Len(h1) + 1]

\* save: R.view returns the state's own rgb object and saves array;
\* R.append allocates a new array ending in that rgb object; R.set clones
\* initialState with the new array, so the result shares initialState's rgb.
SaveObjects(h, a) ==
    LET newRGB == h[a].rgb
        saves == h[a].saves
        appended == [kind |-> "array", items |-> Append(h[saves].items, newRGB)]
        h1 == Append(h, appended)
        newState == [h1[initialStateRef] EXCEPT !.saves = Len(h1)]
    IN  [heap |-> Append(h1, newState), ref |-> Len(h1) + 1]

\* action(state) on the state object at address a.
ApplyObjects(action, h, a) ==
    CASE action.type = "setR" -> AssocPathRGB("r", action.value, h, a)
      [] action.type = "setG" -> AssocPathRGB("g", action.value, h, a)
      [] action.type = "setB" -> AssocPathRGB("b", action.value, h, a)
      [] action.type = "save" -> SaveObjects(h, a)

\* A heap holding initialState and, after it, the objects of a state of
\* value s; the state object is the last one.
HeapOf(s) ==
    LET n == Len(s.saves)
        entries == [i \in 1..n |->
                      [kind |-> "rgb", r |-> s.saves[i].r, g |-> s.saves[i].g,
                       b |-> s.saves[i].b]]
        base == Len(InitialHeap)
    IN  InitialHeap \o entries \o
        <<[kind |-> "array", items |-> [i \in 1..n |-> base + i]],
          [kind |-> "rgb", r |-> s.rgb.r, g |-> s.rgb.g, b |-> s.rgb.b],
          [kind |-> "state", rgb |-> base + n + 2, saves |-> base + n + 1]>>

----------------------------------------------------------------------------
(* The components: what each renders from its props.                       *)

min == 0
max == 255

\* LabeledSlider as it would be with the input's value left out of the
\* vtree's props: the element keeps showing the value it was created with.
LabeledSlider_noValue(props) ==
    [label |-> props.label,
     input |-> [selector |-> props.selector, type |-> "range",
                min |-> props.min, max |-> props.max,
                value |-> DecimalString(props.min)]]

LabeledSlider(props) ==
    [label |-> props.label,
     input |-> [selector |-> props.selector, type |-> "range",
                min |-> props.min, max |-> props.max, value |-> props.get]]

\* ActionButton as it would be with disabled: props.canAct.
ActionButton_notNegated(props) ==
    [button |-> [selector |-> props.selector, disabled |-> props.canAct,
                 caption |-> props.caption]]

ActionButton(props) ==
    [button |-> [selector |-> props.selector, disabled |-> ~props.canAct,
                 caption |-> props.caption]]

\* SavesDisplay as it would be with the saves rendered newest first
\* (R.reverse(props.saves).map(...)).
SavesDisplay_reversed(props) ==
    [selector |-> props.selector,
     pre |-> [i \in 1..Len(props.saves) |->
                JSONStringify(props.saves[Len(props.saves) + 1 - i])]]

SavesDisplay(props) ==
    [selector |-> props.selector,
     pre |-> [i \in 1..Len(props.saves) |-> JSONStringify(props.saves[i])]]

\* The props main() derives from a state for each component.
redProps(s) ==
    [set |-> "setR", label |-> "Red", selector |-> ".red",
     min |-> min, max |-> max, get |-> getR(s)]

greenProps(s) ==
    [set |-> "setG", label |-> "Green", selector |-> ".green",
     min |-> min, max |-> max, get |-> getG(s)]

blueProps(s) ==
    [set |-> "setB", label |-> "Blue", selector |-> ".blue",
     min |-> min, max |-> max, get |-> getB(s)]

\* saveProps as it would be with canSave evaluated once, on initialState,
\* outside the map over state$.
saveProps_canSaveOnce(s) ==
    [selector |-> ".save", caption |-> "Save", set |-> "save",
     canAct |-> canSave(initialState)]

saveProps(s) ==
    [selector |-> ".save", caption |-> "Save", set |-> "save",
     canAct |-> canSave(s)]

savesProps(s) == [selector |-> ".saves", saves |-> s.saves]

\* The composed vtree once every component has rendered state s, children in
\* the order red, green, blue, save, saves.
Render(s) ==
    <<LabeledSlider(redProps(s)), LabeledSlider(greenProps(s)),
      LabeledSlider(blueProps(s)), ActionButton(saveProps(s)),
      SavesDisplay(savesProps(s))>>

----------------------------------------------------------------------------
(* The components: the action each emits for a DOM event it receives.      *)

\* LabeledSlider's listener as it would be with ev.type passed to props.set.
SliderAction_evType(props, ev) == [type |-> props.set, value |-> ev.type]

\* ev => props.set(ev.target.value)
SliderAction(props, ev) == [type |-> props.set, value |-> ev.value]

\* ev => props.set()
ButtonAction(props, ev) == [type |-> props.set]

----------------------------------------------------------------------------
(* The DOM driver: which user events reach the components' listeners.      *)

\* The positions of a slider that the model explores.  A range input only
\* takes integer positions from its min to its max.
SliderPositions == {n \in {0, 100, 200, 255} : min <= n /\ n <= max}

\* The 'change' event of a range input moved to position n.
ChangeEvent(selector, n) ==
    [type |-> "change", selector |-> selector, value |-> DecimalString(n),
     delivered |-> TRUE]

\* The 'click' event of an activation of the button rendered in v.  A
\* disabled button dispatches no click event, so the listener that
\* events('click') registered is not called.
ClickEvent(selector, v) ==
    [type |-> "click", selector |-> selector, value |-> "",
     delivered |-> ~v[4].button.disabled]

----------------------------------------------------------------------------
(* The state update loop.                                                  *)

\* xs.combine(state$, redSlider.DOM, ..., savesDisplay.DOM) emits every time
\* one of its six inputs emits.  state$ hands a new state to its listeners
\* one after the other, in the order they subscribed: the combine itself,
\* then the props of the red, green, blue, save and saves components.  So
\* the vtree composed after k components have rendered the new state takes
\* its first k children from the renderings of the new state (after) and
\* the others from those of the old one (before).
ComposedAfter(k, before, after) ==
    [i \in 1..5 |-> IF i <= k THEN after[i] ELSE before[i]]

\* The vtrees vtree$ emits when state$ goes from old to new: one for the
\* emission of state$ and one for each of the five components' DOM sinks.
Emissions(old, new) ==
    LET before == Render(old)
        after == Render(new)
    IN  [k \in 1..6 |-> ComposedAfter(k - 1, before, after)]

\* The loop as it would be with the fold's callback applying each action to
\* initialState instead of to the accumulator.
Dispatch_onSeed(action) ==
    /\ received' = Append(received, action)
    /\ state' = Apply(action, initialState)
    /\ published' = Append(published, state')
    /\ emitted' = Emissions(state, state')
    /\ view' = Last(emitted')
    /\ LET result == ApplyObjects(action, heap, initialStateRef)
       IN  heap' = result.heap /\ refs' = Append(refs, result.ref)

\* The loop as it would be with LabeledSlider emitting props.set(props.get)
\* when it renders: the red slider's render of the new state sends a second
\* action round the loop.
Dispatch_renderEmits(action) ==
    LET echo == [type |-> redProps(state).set,
                 value |-> redProps(Apply(action, state)).get]
    IN  /\ received' = received \o <<action, echo>>
        /\ state' = Apply(echo, Apply(action, state))
        /\ published' = published \o <<Apply(action, state), state'>>
        /\ emitted' = Emissions(state, state')
        /\ view' = Last(emitted')
        /\ LET first == ApplyObjects(action, heap, Last(refs))
               second == ApplyObjects(echo, first.heap, first.ref)
           IN  heap' = second.heap /\ refs' = refs \o <<first.ref, second.ref>>

\* One action through the loop: actionProxy$ receives it, the fold applies
\* it to the accumulator (state is the value, Last(refs) the object it is
\* applied to) and emits the new state, every component renders
\* from the new state and each composed vtree is patched into the DOM.  All
\* of it runs synchronously inside the event's listener; view is the DOM
\* when the listener returns, that is the last vtree xs.combine emitted.
Dispatch(action) ==
    /\ received' = Append(received, action)
    /\ state' = Apply(action, state)
    /\ published' = Append(published, state')
    /\ emitted' = Emissions(state, state')
    /\ view' = Last(emitted')
    /\ LET result == ApplyObjects(action, heap, Last(refs))
       IN  heap' = result.heap /\ refs' = Append(refs, result.ref)

\* A user event that emits no action leaves the loop as it is, and no vtree
\* is emitted.
NoDispatch ==
    /\ UNCHANGED <<state, published, received, view, heap, refs>>
    /\ emitted' = <<>>

\* The fold emits its seed when the DOM driver subscribes to the vtree, and
\* the combine emits its first vtree once all six inputs have emitted.
Init ==
    /\ state = initialState
    /\ published = <<initialState>>
    /\ received = <<>>
    /\ emitted = <<Render(initialState)>>
    /\ view = Last(emitted)
    /\ events = <<>>
    /\ heap = InitialHeap
    /\ refs = <<initialStateRef>>

ChangeRed(n) ==
    /\ Len(events) < MaxEvents
    /\ LET ev == ChangeEvent(redProps(state).selector, n)
       IN  /\ events' = Append(events, ev)
           /\ Dispatch(SliderAction(redProps(state), ev))

\* The green slider as it would be if its input were rendered disabled
\* together with the save button (disabled: !canSave(state)).
ChangeGreen_gated(n) ==
    /\ canSave(state)
    /\ Len(events) < MaxEvents
    /\ LET ev == ChangeEvent(greenProps(state).selector, n)
       IN  /\ events' = Append(events, ev)
           /\ Dispatch(SliderAction(greenProps(state), ev))

ChangeGreen(n) ==
    /\ Len(events) < MaxEvents
    /\ LET ev == ChangeEvent(greenProps(state).selector, n)
       IN  /\ events' = Append(events, ev)
           /\ Dispatch(SliderAction(greenProps(state), ev))

\* The blue slider as it would be with blueSlider.action left out of the
\* xs.merge that feeds actionProxy$: its events emit into nothing.
ChangeBlue_notMerged(n) ==
    /\ Len(events) < MaxEvents
    /\ LET ev == ChangeEvent(blueProps(state).selector, n)
       IN  /\ events' = Append(events, ev)
           /\ NoDispatch

ChangeBlue(n) ==
    /\ Len(events) < MaxEvents
    /\ LET ev == ChangeEvent(blueProps(state).selector, n)
       IN  /\ events' = Append(events, ev)
           /\ Dispatch(SliderAction(blueProps(state), ev))

ClickSave ==
    /\ Len(events) < MaxEvents
    /\ LET ev == ClickEvent(saveProps(state).selector, view)
       IN  /\ events' = Append(events, ev)
           /\ IF ev.delivered
              THEN Dispatch(ButtonAction(saveProps(state), ev))
              ELSE NoDispatch

Next ==
    \/ \E n \in SliderPositions : ChangeRed(n)
    \/ \E n \in SliderPositions : ChangeGreen(n)
    \/ \E n \in SliderPositions : ChangeBlue(n)
    \/ ClickSave

Spec == Init /\ [][Next]_vars

----------------------------------------------------------------------------
(* The reducer on its own: action(state) for states and actions that need  *)
(* not come from the user interface (any saved triples, any string value,  *)
(* save() on any state).                                                   *)

Cyan == [r |-> "0", g |-> "255", b |-> "255"]

StateValues == {"0", "254", "255"}

ActionValues == {"0", "128", "255", "x"}

SavedTriples == {Cyan, [r |-> "200", g |-> "100", b |-> "0"]}

RECURSIVE SeqsUpTo(_, _)
SeqsUpTo(S, n) ==
    IF n = 0 THEN {<<>>}
    ELSE LET shorter == SeqsUpTo(S, n - 1)
         IN  shorter \cup {Append(q, x) : q \in shorter, x \in S}

ReducerStates ==
    {[rgb |-> [r |-> vr, g |-> vg, b |-> vb], saves |-> q] :
        vr \in StateValues, vg \in StateValues, vb \in StateValues,
        q \in SeqsUpTo(SavedTriples, MaxInitSaves)}

ReducerInit ==
    /\ state \in ReducerStates
    /\ published = <<state>>
    /\ received = <<>>
    /\ emitted = <<Render(state)>>
    /\ view = Last(emitted)
    /\ events = <<>>
    /\ heap = HeapOf(state)
    /\ refs = <<Len(heap)>>

CallSetR(value) ==
    /\ Len(received) < MaxCalls
    /\ Dispatch([type |-> "setR", value |-> value])
    /\ UNCHANGED events

CallSetG(value) ==
    /\ Len(received) < MaxCalls
    /\ Dispatch([type |-> "setG", value |-> value])
    /\ UNCHANGED events

CallSetB(value) ==
    /\ Len(received) < MaxCalls
    /\ Dispatch([type |-> "setB", value |-> value])
    /\ UNCHANGED events

CallSave ==
    /\ Len(received) < MaxCalls
    /\ Dispatch([type |-> "save"])
    /\ UNCHANGED events

ReducerNext ==
    \/ \E value \in ActionValues : CallSetR(value)
    \/ \E value \in ActionValues : CallSetG(value)
    \/ \E value \in ActionValues : CallSetB(value)
    \/ CallSave

ReducerSpec == ReducerInit /\ [][ReducerNext]_vars

----------------------------------------------------------------------------
(* Properties.                                                             *)

\* The i-th action received found the state Before(i) and left After(i).
Steps == 1..Len(received)
Before(i) == published[i]
After(i) == published[i + 1]

\* C1: a setR(v), setG(v) or setB(v) applied to any state yields a state
\* whose targeted rgb field is v, whose other two rgb fields are those of
\* the state it was applied to, and whose saves are unchanged.
C1_SetFrame ==
    \A i \in Steps :
        LET a == received[i]
            s == Before(i)
            u == After(i)
        IN  /\ a.type = "setR" =>
                /\ u.rgb.r = a.value
                /\ u.rgb.g = s.rgb.g /\ u.rgb.b = s.rgb.b
                /\ u.saves = s.saves
            /\ a.type = "setG" =>
                /\ u.rgb.g = a.value
                /\ u.rgb.r = s.rgb.r /\ u.rgb.b = s.rgb.b
                /\ u.saves = s.saves
            /\ a.type = "setB" =>
                /\ u.rgb.b = a.value
                /\ u.rgb.r = s.rgb.r /\ u.rgb.g = s.rgb.g
                /\ u.saves = s.saves
            /\ a.type \in {"setR", "setG", "setB"} =>
                /\ DOMAIN u = DOMAIN s
                /\ DOMAIN u.rgb = DOMAIN s.rgb

\* A set action has replaced a field by a different value in a state that
\* holds a saved triple and whose three fields are not all alike.
C1_Witness ==
    /\ Len(received) = 1
    /\ received[1] = [type |-> "setG", value |-> "128"]
    /\ Before(1).rgb = [r |-> "254", g |-> "255", b |-> "0"]
    /\ Before(1).saves # <<>>
    /\ state.rgb = [r |-> "254", g |-> "128", b |-> "0"]

\* C2: save() applied to any state yields a state whose saves are the old
\* saves with the old rgb appended last and whose rgb is ("0", "0", "0"):
\* the initial state with only saves replaced.
C2_Save ==
    \A i \in Steps :
        received[i].type = "save" =>
            /\ After(i).saves = Before(i).saves \o <<Before(i).rgb>>
            /\ After(i).rgb = [r |-> "0", g |-> "0", b |-> "0"]
            /\ After(i) = [rgb |-> initialState.rgb, saves |-> After(i).saves]

\* save() has been applied to a state with a saved triple and a live rgb
\* that is not ("0", "0", "0").
C2_Witness ==
    /\ Len(received) = 1
    /\ received[1].type = "save"
    /\ Len(Before(1).saves) = 1
    /\ Before(1).rgb = [r |-> "255", g |-> "254", b |-> "0"]
    /\ Before(1).saves[1] # Before(1).rgb
    /\ Len(state.saves) = 2

\* C3: canSave is false exactly on rgb = ("0", "255", "255"), and so true on
\* ("255", "0", "0") and ("0", "255", "254").
C3_CanSave ==
    \A i \in 1..Len(published) :
        LET s == published[i]
        IN  /\ canSave(s) \in BOOLEAN
            /\ ~canSave(s) <=> (s.rgb.r = "0" /\ s.rgb.g = "255" /\ s.rgb.b = "255")
            /\ s.rgb = [r |-> "255", g |-> "0", b |-> "0"] => canSave(s)
            /\ s.rgb = [r |-> "0", g |-> "255", b |-> "254"] => canSave(s)

\* canSave has been evaluated on ("0", "255", "254"), then on cyan, then on
\* ("255", "255", "255").
C3_Witness ==
    /\ Len(published) = 3
    /\ published[1].rgb = [r |-> "0", g |-> "255", b |-> "254"]
    /\ canSave(published[1])
    /\ published[2].rgb = Cyan
    /\ ~canSave(published[2])
    /\ state.rgb = [r |-> "255", g |-> "255", b |-> "255"]
    /\ canSave(state)

\* C4: while the state's rgb is cyan the button is rendered disabled, an
\* activation of it reaches no listener, emits no action and leaves state,
\* published states and received actions as they were, and no step of any
\* kind adds a save action.
C4_NoSaveWhileDisabled ==
    [][ state.rgb = Cyan =>
          /\ view[4].button.disabled
          /\ (Len(events') = Len(events) + 1 /\ Last(events').type = "click") =>
                /\ ~Last(events').delivered
                /\ received' = received
                /\ state' = state
                /\ published' = published
                /\ view' = view
          /\ received' # received => Last(received').type # "save" ]_vars

\* The button has been activated twice in a row in the cyan state.
C4_Witness ==
    /\ state.rgb = Cyan
    /\ Len(events) = 4
    /\ events[3].type = "click" /\ ~events[3].delivered
    /\ events[4].type = "click" /\ ~events[4].delivered
    /\ Len(received) = 2

\* The left fold of action(state) over a sequence of actions.
RECURSIVE FoldLeft(_, _)
FoldLeft(actions, seed) ==
    IF actions = <<>> THEN seed
    ELSE Apply(Last(actions), FoldLeft(SubSeq(actions, 1, Len(actions) - 1), seed))

\* C5: the state published is always the left fold of the reducer over the
\* actions received so far, from the initial state (rgb all "0", no saves);
\* the first state published is the initial state.
C5_StateIsFold ==
    /\ state = FoldLeft(received, [rgb |-> [r |-> "0", g |-> "0", b |-> "0"],
                                   saves |-> <<>>])
    /\ Len(published) = Len(received) + 1
    /\ published[1] = initialState
    /\ Last(published) = state

\* Four actions have been received, a save among them but not the last.
C5_Witness ==
    /\ Len(received) = 4
    /\ received[2].type = "save"
    /\ received[4].type = "setB"
    /\ state.saves # <<>>
    /\ state.rgb.r # "0"
    /\ state.rgb.b # "0"

\* The integer a string of decimal digits denotes; -1 if it is no such string.
DigitValue(c) == IF \E d \in 0..9 : Digits[d + 1] = c
                 THEN CHOOSE d \in 0..9 : Digits[d + 1] = c
                 ELSE -1

RECURSIVE ParseDecimal(_)
ParseDecimal(s) ==
    IF Len(s) = 0 THEN -1
    ELSE LET d == DigitValue(SubSeq(s, Len(s), Len(s)))
         IN  IF d = -1 THEN -1
             ELSE IF Len(s) = 1 THEN d
             ELSE LET hi == ParseDecimal(SubSeq(s, 1, Len(s) - 1))
                  IN  IF hi = -1 THEN -1 ELSE 10 * hi + d

\* s is the decimal string of an integer in [0, 255]: digits only, no leading
\* zero, value at most 255.
IsByteString(s) ==
    /\ ParseDecimal(s) \in 0..255
    /\ Len(s) > 1 => SubSeq(s, 1, 1) # "0"

\* C7: in every state reached through the user interface rgb has exactly the
\* fields r, g and b, each the decimal string of an integer in [0, 255].
C7_RgbInRange ==
    /\ DOMAIN state.rgb = {"r", "g", "b"}
    /\ IsByteString(state.rgb.r)
    /\ IsByteString(state.rgb.g)
    /\ IsByteString(state.rgb.b)

\* The sliders have been moved to both ends of their range and in between.
C7_Witness ==
    /\ state.rgb = [r |-> "255", g |-> "100", b |-> "0"]
    /\ Len(received) = 3
    /\ published[2].rgb # initialState.rgb

IsPrefix(p, q) == Len(p) <= Len(q) /\ SubSeq(q, 1, Len(p)) = p

\* C8: the saves of a state are a prefix of the saves of every state that
\* follows it; a set action leaves saves equal and a save makes them one
\* longer, so no later action changes an entry already saved.
C8_SavesAppendOnly ==
    /\ \A i \in Steps :
          /\ IsPrefix(Before(i).saves, After(i).saves)
          /\ received[i].type \in {"setR", "setG", "setB"} =>
                After(i).saves = Before(i).saves
          /\ received[i].type = "save" =>
                Len(After(i).saves) = Len(Before(i).saves) + 1
    /\ \A i \in 1..Len(published) : \A j \in i..Len(published) :
          /\ IsPrefix(published[i].saves, published[j].saves)
          /\ \A k \in 1..Len(published[i].saves) :
                published[j].saves[k] = published[i].saves[k]

\* A state that held a saved triple has been saved again, and a set action
\* has followed.
C8_Witness ==
    /\ Len(received) = 2
    /\ received[1].type = "save"
    /\ received[2].type = "setR"
    /\ Len(published[1].saves) = 1
    /\ published[1].saves[1] # published[1].rgb
    /\ Len(state.saves) = 2

Scenario1 ==
    <<[type |-> "setR", value |-> "200"], [type |-> "setG", value |-> "100"],
      [type |-> "save"]>>

\* C9: from the initial state, setR("200"), setG("100"), save() yield rgb
\* ("0", "0", "0") and saves [("200", "100", "0")].
C9_Scenario1 ==
    received = Scenario1 =>
        /\ published[1] = [rgb |-> [r |-> "0", g |-> "0", b |-> "0"], saves |-> <<>>]
        /\ state = [rgb |-> [r |-> "0", g |-> "0", b |-> "0"],
                    saves |-> <<[r |-> "200", g |-> "100", b |-> "0"]>>]

\* The three actions of the scenario have been received, nothing else.
C9_Witness ==
    /\ received = Scenario1
    /\ Len(events) = 3

\* C10: a set action applied a second time in a row leaves the state the
\* first application produced.
C10_SetIdempotent ==
    \A i \in Steps :
        (/\ i + 1 \in Steps
         /\ received[i].type \in {"setR", "setG", "setB"}
         /\ received[i + 1] = received[i])
        => After(i + 1) = After(i)

\* setR("128") has been applied twice in a row to a state whose r it changes.
C10_Witness ==
    /\ received = <<[type |-> "setR", value |-> "128"],
                    [type |-> "setR", value |-> "128"]>>
    /\ published[1].rgb.r = "254"
    /\ published[1].saves # <<>>

\* C11: in every reachable state the save button is given canAct =
\* canSave(state) and is rendered disabled exactly when canAct is false;
\* whenever the last three actions were setR("0"), setG("255"), setB("255"),
\* canAct is false and the button is disabled.
C11_CanActIsCanSave ==
    /\ saveProps(state).canAct = canSave(state)
    /\ view[4].button.disabled = ~saveProps(state).canAct
    /\ view[4].button.disabled = (state.rgb = Cyan)
    /\ (/\ Len(received) >= 3
        /\ SubSeq(received, Len(received) - 2, Len(received)) =
             <<[type |-> "setR", value |-> "0"],
               [type |-> "setG", value |-> "255"],
               [type |-> "setB", value |-> "255"]>>)
       => (~saveProps(state).canAct /\ view[4].button.disabled)

\* From a state whose red is not "0", the three set actions have been
\* received and the button is rendered disabled.
C11_Witness ==
    /\ received = <<[type |-> "setR", value |-> "200"],
                    [type |-> "setR", value |-> "0"],
                    [type |-> "setG", value |-> "255"],
                    [type |-> "setB", value |-> "255"]>>
    /\ view[4].button.disabled
    /\ ~saveProps(state).canAct

\* The action constructor main() gives the component with this selector.
SetterOf(selector) ==
    CASE selector = ".red" -> "setR"
      [] selector = ".green" -> "setG"
      [] selector = ".blue" -> "setB"
      [] selector = ".save" -> "save"

\* C12: a step adds an action, or changes the state, only together with one
\* user event that the DOM delivered, and then adds exactly one action; a
\* slider's change event adds its set(rawValue) and nothing more, so the
\* renders that follow an action add no action of their own.
C12_OneActionPerEvent ==
    [][ /\ (received' # received \/ state' # state \/ published' # published) =>
            /\ Len(events') = Len(events) + 1
            /\ SubSeq(events', 1, Len(events)) = events
            /\ Last(events').delivered
            /\ Len(received') = Len(received) + 1
            /\ SubSeq(received', 1, Len(received)) = received
            /\ Len(published') = Len(published) + 1
        /\ (Len(events') = Len(events) + 1 /\ Last(events').type = "change") =>
            /\ Last(events').delivered
            /\ received' = Append(received,
                   [type |-> SetterOf(Last(events').selector),
                    value |-> Last(events').value]) ]_vars

\* Each of the three sliders has been moved once and re-rendered after
\* every one of the three actions.
C12_Witness ==
    /\ Len(events) = 3
    /\ {events[i].selector : i \in 1..3} = {".red", ".green", ".blue"}
    /\ Len(received) = 3
    /\ Len(published) = 4
    /\ Len(emitted) = 6

\* C13: every vtree the orchestrator emits is composed of renderings of one
\* state, and none takes some children from the state before the action just
\* processed and others from the state after it.  (The claim also wants that
\* one state to be the state after the action; the formula asks less, it lets
\* a vtree be wholly of the state before, so that a violation is a vtree that
\* mixes the two.)
C13_NoMixedView ==
    \A k \in 1..Len(emitted) :
        \/ emitted[k] = Render(state)
        \/ Len(published) > 1 /\ emitted[k] = Render(published[Len(published) - 1])

\* The action the component listening on ev's selector emits for ev.
EmittedFor(ev) ==
    IF ev.type = "click"
    THEN [type |-> SetterOf(ev.selector)]
    ELSE [type |-> SetterOf(ev.selector), value |-> ev.value]

\* The actions the four components have emitted, in the order of the events
\* that made them emit.
EmittedActions ==
    LET delivered == SelectSeq(events, LAMBDA ev : ev.delivered)
    IN  [i \in 1..Len(delivered) |-> EmittedFor(delivered[i])]

\* C14: the actions that reached the fold are exactly the actions the three
\* sliders and the button emitted, in emission order, each once; and each
\* was applied as a whole to the state the one before it left.
C14_MergedInOrder ==
    /\ received = EmittedActions
    /\ Len(published) = Len(received) + 1
    /\ \A i \in Steps : After(i) = Apply(received[i], Before(i))

\* Each of the four components has emitted one action.
C14_Witness ==
    /\ Len(received) = 4
    /\ {received[i].type : i \in 1..4} = {"setR", "setG", "setB", "save"}
    /\ received[4].type = "setB"
    /\ state.saves # <<>>

\* C15: no state is terminal.  In every reachable state (short of the
\* session length the model explores) every slider can be moved to every
\* position, and save is enabled unless rgb is cyan; in the cyan state each
\* of the three set actions is enabled and can lead to a state in which
\* save is enabled again.
C15_NoTerminalState ==
    Len(events) < MaxEvents =>
        /\ \A n \in SliderPositions :
              /\ ENABLED (ChangeRed(n) /\ Last(received').type = "setR")
              /\ ENABLED (ChangeGreen(n) /\ Last(received').type = "setG")
              /\ ENABLED (ChangeBlue(n) /\ Last(received').type = "setB")
        /\ state.rgb # Cyan =>
              ENABLED (ClickSave /\ Len(received') = Len(received) + 1)
        /\ state.rgb = Cyan =>
              /\ ~ENABLED (ClickSave /\ received' # received)
              /\ \E n \in SliderPositions :
                    ENABLED (ChangeRed(n) /\ ~view'[4].button.disabled)
              /\ \E n \in SliderPositions :
                    ENABLED (ChangeGreen(n) /\ ~view'[4].button.disabled)
              /\ \E n \in SliderPositions :
                    ENABLED (ChangeBlue(n) /\ ~view'[4].button.disabled)

\* The cyan state has been reached and left again by a set action, and the
\* button is enabled.
C15_Witness ==
    /\ Len(published) = 4
    /\ published[3].rgb = Cyan
    /\ received[3].type = "setG"
    /\ state.rgb # Cyan
    /\ ~view[4].button.disabled
    /\ Len(events) < MaxEvents

\* C16: on every render each slider shows the rgb field of the state the
\* render derives from: in the DOM left by every event the red, green and
\* blue inputs show rgb.r, rgb.g and rgb.b of the current state, and in
\* every vtree emitted on the way each input shows that field of the state
\* before or after the action, never another value; after a save all three
\* show "0".
C16_SlidersShowState ==
    /\ view[1].input.value = state.rgb.r
    /\ view[2].input.value = state.rgb.g
    /\ view[3].input.value = state.rgb.b
    /\ \A i \in 1..Len(published) :
          /\ LabeledSlider(redProps(published[i])).input.value = published[i].rgb.r
          /\ LabeledSlider(greenProps(published[i])).input.value = published[i].rgb.g
          /\ LabeledSlider(blueProps(published[i])).input.value = published[i].rgb.b
    /\ \A k \in 1..Len(emitted) :
          LET before == published[IF Len(published) > 1
                                  THEN Len(published) - 1 ELSE 1]
          IN  /\ emitted[k][1].input.value \in {before.rgb.r, state.rgb.r}
              /\ emitted[k][2].input.value \in {before.rgb.g, state.rgb.g}
              /\ emitted[k][3].input.value \in {before.rgb.b, state.rgb.b}
    /\ (received # <<>> /\ Last(received).type = "save" /\ emitted # <<>>) =>
          /\ view[1].input.value = "0"
          /\ view[2].input.value = "0"
          /\ view[3].input.value = "0"

\* All three sliders were off "0" when a save was applied.
C16_Witness ==
    /\ Len(received) = 4
    /\ received[4].type = "save"
    /\ published[4].rgb = [r |-> "200", g |-> "100", b |-> "255"]
    /\ view[1].input.value = "0"
    /\ view[3].input.value = "0"

\* The text between the quotes that follow key in a serialized triple: the
\* value shown for that key.  "" if the key is not there.
RECURSIVE UpToQuote(_)
UpToQuote(text) ==
    IF Len(text) = 0 \/ SubSeq(text, 1, 1) = "\"" THEN ""
    ELSE SubSeq(text, 1, 1) \o UpToQuote(SubSeq(text, 2, Len(text)))

RECURSIVE ShownFor(_, _)
ShownFor(key, text) ==
    LET opening == "\"" \o key \o "\":\""
    IN  IF Len(text) < Len(opening) THEN ""
        ELSE IF SubSeq(text, 1, Len(opening)) = opening
             THEN UpToQuote(SubSeq(text, Len(opening) + 1, Len(text)))
             ELSE ShownFor(key, SubSeq(text, 2, Len(text)))

\* C18: the saves display shows one block per entry of the current state's
\* saves, in the order of the sequence, each block showing the r, g and b
\* values of its entry; and no user event, hence no action, comes from the
\* display.
C18_DisplayShowsSaves ==
    /\ Len(view[5].pre) = Len(state.saves)
    /\ \A i \in 1..Len(state.saves) :
          /\ ShownFor("r", view[5].pre[i]) = state.saves[i].r
          /\ ShownFor("g", view[5].pre[i]) = state.saves[i].g
          /\ ShownFor("b", view[5].pre[i]) = state.saves[i].b
    /\ \A i \in 1..Len(state.saves) :
          state.saves[i] = [r |-> "200", g |-> "100", b |-> "0"] =>
              view[5].pre[i] = "{\"r\":\"200\",\"g\":\"100\",\"b\":\"0\"}"
    /\ \A i \in 1..Len(events) : events[i].selector # view[5].selector
    /\ Len(received) <= Len(events)

\* Two different triples have been saved and are displayed.
C18_Witness ==
    /\ Len(state.saves) = 2
    /\ state.saves[1] # state.saves[2]
    /\ Len(view[5].pre) = 2
    /\ view[5].pre[1] # view[5].pre[2]

\* C19: in every state reached through the user interface no entry of saves
\* is the triple ("0", "255", "255").
C19_NoCyanSaved ==
    \A i \in 1..Len(published) : \A k \in 1..Len(published[i].saves) :
        ~(/\ published[i].saves[k].r = "0"
          /\ published[i].saves[k].g = "255"
          /\ published[i].saves[k].b = "255")

\* A triple has been saved, the state has gone cyan, and a click on the
\* disabled button has followed.
C19_Witness ==
    /\ Len(events) = 4
    /\ events[1].type = "click" /\ events[1].delivered
    /\ events[4].type = "click" /\ ~events[4].delivered
    /\ state.rgb = Cyan
    /\ Len(state.saves) = 1

\* C20: set actions on different rgb fields commute: applying the second
\* before the first yields the state that applying them in the order
\* received yielded.
C20_SetsCommute ==
    \A i \in Steps :
        (/\ i + 1 \in Steps
         /\ received[i].type \in {"setR", "setG", "setB"}
         /\ received[i + 1].type \in {"setR", "setG", "setB"}
         /\ received[i].type # received[i + 1].type)
        => After(i + 1) = Apply(received[i], Apply(received[i + 1], Before(i)))

\* setR and setG have been applied in turn to a state with a saved triple,
\* each changing its field.
C20_Witness ==
    /\ received = <<[type |-> "setR", value |-> "128"],
                    [type |-> "setG", value |-> "0"]>>
    /\ published[1].rgb = [r |-> "255", g |-> "254", b |-> "255"]
    /\ published[1].saves # <<>>
    /\ state.rgb = [r |-> "128", g |-> "0", b |-> "255"]

\* C17: no action mutates a state that state$ has already emitted, nor the
\* constant initialState: the object of every emission still holds the value
\* it was emitted with, and the objects of initialState still hold rgb
\* ("0","0","0") and no saves.
C17_NoMutation ==
    /\ Len(refs) = Len(published)
    /\ \A i \in 1..Len(refs) : ValueAt(heap, refs[i]) = published[i]
    /\ ValueAt(heap, initialStateRef) =
           [rgb |-> [r |-> "0", g |-> "0", b |-> "0"], saves |-> <<>>]

\* A set, a save, a set applied to the state that shares initialState's rgb
\* object, and a second save appending to the first save's array.
C17_Witness ==
    /\ Len(received) = 4
    /\ received[1].type = "setR"
    /\ received[2].type = "save"
    /\ heap[refs[3]].rgb = heap[initialStateRef].rgb
    /\ received[3].type = "setG"
    /\ received[3].value # "0"
    /\ received[4].type = "save"
    /\ Len(state.saves) = 2

====
